---- MODULE Spec2Model ----
(***************************************************************************)
(* Model of the OCR post-processing worker danube_postprocess.py:          *)
(*   - the text helpers (_strip_code_fences, _strip_prefix_lines,          *)
(*     _extract_between, _clean_output) on character sequences,            *)
(*   - the artifact selection _choose_gguf,                                *)
(*   - model resolution _ensure_model, and                                 *)
(*   - the protocol loop of main.                                          *)
(* A text is a sequence of characters, each a one-character string.        *)
(***************************************************************************)
EXTENDS Integers, Sequences, FiniteSets, TLC

VARIABLES
    \* ---- the worker process
    pc,          \* where main stands
    disk,        \* the paths at which a file exists
    frame,       \* _ensure_model's frame: the values it read and what it did
    model_path,  \* main's model_path; <<>> before _ensure_model has returned
    llm,         \* main's llm and n_ctx once _load_llm has returned
    fatal,       \* what made initialization fail, "" when nothing has
    exitCode,    \* <<>> while main runs, then <<its return value>>
    stdin,       \* "open", or "closed" once the host has closed the stream
    inputs,      \* the lines read so far, each with what handling it did
    stdout,      \* the lines written to standard output
    \* ---- pure-function harness: _clean_output
    text,        \* the text X the raw output is built from
    raw,         \* the raw model output handed to _clean_output
    cleaned,     \* _clean_output's result
    cpc,         \* "in" before the call, "done" after
    \* ---- pure-function harness: _choose_gguf
    files,       \* the catalog file list
    requireQ4,   \* the require_q4 argument
    chosen,      \* _choose_gguf's result
    gpc,         \* "in" before the call, "done" after
    \* ---- pure-function harness: a text pass applied to its own result
    arg,         \* the text handed to the pass
    once,        \* the result of the pass on arg
    twice,       \* the result of the pass on once
    fpc,         \* "in" before the first call, "once" after it, "twice" at the end
    \* ---- pure-function harness: _max_tokens
    tlen,        \* len(text)
    tctx,        \* n_ctx
    tokens,      \* _max_tokens' result
    tpc,         \* "in" before the call, "done" after
    \* ---- worker instances that share one model directory
    cache,       \* the selected artifact's file in the shared directory
    inst         \* each instance's position in lines 175-181 and the path it holds

procVars == <<pc, disk, frame, model_path, llm, fatal, exitCode, stdin, inputs, stdout>>

cleanVars == <<text, raw, cleaned, cpc>>

chooseVars == <<files, requireQ4, chosen, gpc>>

twiceVars == <<arg, once, twice, fpc>>

tokenVars == <<tlen, tctx, tokens, tpc>>

raceVars == <<cache, inst>>

\* the variables of the harnesses
pureVars == <<cleanVars, chooseVars, twiceVars, tokenVars, raceVars>>

vars == <<procVars, pureVars>>

----------------------------------------------------------------------------
(* Bounds of the model. *)

\* pieces concatenated to build a text
MaxPieces == 3
\* file names in a catalog
MaxFiles == 3
\* input lines the host sends
MaxLines == 3

\* lines of a text handed to _add_table_spacing
MaxTableLines == 5
\* lines of a text handed to _add_option_spacing
MaxOptionLines == 4

\* the longest text handed to _max_tokens
MaxTextLen == 4200

\* worker instances that share the model directory
NumInstances == 2
\* chunks of the artifact's body
MaxChunks == 2
\* restarts of one instance
MaxRestarts == 1
\* pieces of the fragment and of the answer in an output that echoes the prompt
MaxEchoPieces == 2

----------------------------------------------------------------------------
(* Python str operations on character sequences. *)

\* characters str.strip() removes (those of the model's alphabet)
WS == {" ", "\n", "\r", "\t"}

Min(S) == CHOOSE x \in S : \A y \in S : x <= y
Max(S) == CHOOSE x \in S : \A y \in S : x >= y

\* s[i-1:] in Python terms: the suffix starting at 1-based position i
Drop(s, i) == SubSeq(s, i, Len(s))

\* p occurs in s at 1-based position i
OccursAt(s, p, i) ==
    /\ i >= 1
    /\ i + Len(p) - 1 <= Len(s)
    /\ \A k \in 1..Len(p) : s[i + k - 1] = p[k]

\* str.find(p, from): the first position >= from where p occurs, 0 when none
Find(s, p, from) ==
    LET hits == {i \in from..(Len(s) - Len(p) + 1) : OccursAt(s, p, i)}
    IN IF hits = {} THEN 0 ELSE Min(hits)

\* str.rfind(p): the last position where p occurs, 0 when none
RFind(s, p) ==
    LET hits == {i \in 1..(Len(s) - Len(p) + 1) : OccursAt(s, p, i)}
    IN IF hits = {} THEN 0 ELSE Max(hits)

\* p in s
Contains(s, p) == Find(s, p, 1) # 0

StartsWith(s, p) == OccursAt(s, p, 1)

EndsWith(s, p) == Len(p) <= Len(s) /\ OccursAt(s, p, Len(s) - Len(p) + 1)

\* str.lstrip()
LStrip(s) ==
    LET keep == {i \in 1..Len(s) : s[i] \notin WS}
    IN IF keep = {} THEN <<>> ELSE Drop(s, Min(keep))

\* str.rstrip()
RStrip(s) ==
    LET keep == {i \in 1..Len(s) : s[i] \notin WS}
    IN IF keep = {} THEN <<>> ELSE SubSeq(s, 1, Max(keep))

\* str.strip()
Strip(s) == LStrip(RStrip(s))

\* str.replace(p, ""): every non-overlapping occurrence, left to right
RECURSIVE Remove(_, _)
Remove(s, p) ==
    LET i == Find(s, p, 1)
    IN IF i = 0 THEN s
       ELSE SubSeq(s, 1, i - 1) \o Remove(Drop(s, i + Len(p)), p)

\* str.splitlines(): breaks at \n, \r and \r\n; no empty last line
RECURSIVE SplitLines(_)
SplitLines(s) ==
    IF s = <<>> THEN <<>>
    ELSE LET brk == {i \in 1..Len(s) : s[i] \in {"\n", "\r"}}
         IN IF brk = {} THEN <<s>>
            ELSE LET i == Min(brk)
                     n == IF s[i] = "\r" /\ i < Len(s) /\ s[i + 1] = "\n"
                          THEN 2 ELSE 1
                 IN <<SubSeq(s, 1, i - 1)>> \o SplitLines(Drop(s, i + n))

\* "\n".join(lines)
RECURSIVE JoinLines(_)
JoinLines(lines) ==
    IF lines = <<>> THEN <<>>
    ELSE IF Len(lines) = 1 THEN lines[1]
    ELSE lines[1] \o <<"\n">> \o JoinLines(Tail(lines))

\* str.lower() on the letters of the model's alphabet
Lower(c) ==
    CASE c = "T" -> "t" [] c = "E" -> "e" [] c = "X" -> "x" [] c = "N" -> "n"
      [] c = "D" -> "d" [] c = "O" -> "o" [] c = "U" -> "u" [] c = "C" -> "c"
      [] c = "H" -> "h" [] c = "I" -> "i" [] c = "A" -> "a" [] c = "S" -> "s"
      [] c = "R" -> "r" [] c = "F" -> "f" [] c = "L" -> "l" [] c = "W" -> "w"
      [] OTHER -> c

LowerSeq(s) == [i \in 1..Len(s) |-> Lower(s[i])]

\* the maximal runs of non-whitespace characters of s, in order
RECURSIVE Words(_)
Words(s) ==
    LET t == LStrip(s)
    IN IF t = <<>> THEN <<>>
       ELSE LET ws == {i \in 1..Len(t) : t[i] \in WS}
                e == IF ws = {} THEN Len(t) + 1 ELSE Min(ws)
            IN <<SubSeq(t, 1, e - 1)>> \o Words(Drop(t, e))

----------------------------------------------------------------------------
(* The literals of the source. *)

MarkText == <<"<", "<", "<", "T", "E", "X", "T", ">", ">", ">">>
MarkEnd == <<"<", "<", "<", "E", "N", "D", ">", ">", ">">>
MarkOut == <<"<", "<", "<", "O", "U", "T", ">", ">", ">">>
MarkEndOut == <<"<", "<", "<", "E", "N", "D", "O", "U", "T", ">", ">", ">">>
\* the backquote character is written "bq": a string may not hold it
Bq == "bq"
Fence == <<Bq, Bq, Bq>>

W_the == <<"t", "h", "e">>
W_corrected == <<"c", "o", "r", "r", "e", "c", "t", "e", "d">>
W_text == <<"t", "e", "x", "t">>
W_is == <<"i", "s">>
W_as == <<"a", "s">>
W_follows == <<"f", "o", "l", "l", "o", "w", "s">>

----------------------------------------------------------------------------
(* The output normalizer. *)

\* re.sub(r"^<fence>[^\n]*\n", "", s): the first line, when s has a line break \n
StripOpeningFence(s) ==
    LET nl == Find(s, <<"\n">>, 1)
    IN IF nl = 0 THEN s ELSE Drop(s, nl + 1)

\* re.sub(r"\n<fence>$", "", s) for an s that ends with the fence
StripClosingFence(s) ==
    IF EndsWith(s, <<"\n">> \o Fence)
    THEN SubSeq(s, 1, Len(s) - Len(Fence) - 1)
    ELSE s

StripCodeFences(s) ==
    LET a == IF StartsWith(s, Fence) THEN StripOpeningFence(s) ELSE s
    IN IF EndsWith(a, Fence) THEN StripClosingFence(a) ELSE a

\* (?i)^(the\s+)?corrected\s+text\s+is\s+as\s+follows:?\s*$ on a stripped line
IsPreamble(line) ==
    LET w == Words(LowerSeq(line))
        core == IF Len(w) >= 1 /\ w[1] = W_the THEN Tail(w) ELSE w
    IN /\ Len(core) = 5
       /\ core[1] = W_corrected
       /\ core[2] = W_text
       /\ core[3] = W_is
       /\ core[4] = W_as
       /\ core[5] \in {W_follows, W_follows \o <<":">>}

RECURSIVE DropPreambles(_)
DropPreambles(lines) ==
    IF lines # <<>> /\ IsPreamble(Strip(lines[1]))
    THEN DropPreambles(Tail(lines))
    ELSE lines

StripPrefixLines(s) == Strip(JoinLines(DropPreambles(SplitLines(s))))

ExtractBetween(s, start, end) ==
    LET si == RFind(s, start)
    IN IF si = 0 THEN <<>>
       ELSE LET from == si + Len(start)
                ei == Find(s, end, from)
            IN IF ei = 0 THEN <<>> ELSE Strip(SubSeq(s, from, ei - 1))

\* lines 288-291
EchoExtract(s) ==
    IF Contains(s, MarkText) /\ Contains(s, MarkEnd)
    THEN LET extracted == ExtractBetween(s, MarkText, MarkEnd)
         IN IF extracted # <<>> THEN extracted ELSE s
    ELSE s

\* lines 293-296
AnswerExtract(s) ==
    IF Contains(s, MarkOut)
    THEN LET tail == Strip(Drop(s, RFind(s, MarkOut) + Len(MarkOut)))
         IN IF tail # <<>> THEN tail ELSE s
    ELSE s

\* a scrub that forgets the end-of-output marker
ScrubNoEndOut(s) == Remove(Remove(Remove(s, MarkText), MarkEnd), MarkOut)

\* lines 298-299
ScrubMarkers(s) ==
    Remove(Remove(Remove(Remove(s, MarkText), MarkEnd), MarkOut), MarkEndOut)

CleanOutput(output) ==
    LET c0 == Strip(output)
    IN IF c0 = <<>> THEN <<>>
       ELSE LET c1 == StripPrefixLines(Strip(StripCodeFences(c0)))
                c2 == EchoExtract(c1)
                c3 == AnswerExtract(c2)
                c4 == ScrubMarkers(c3)
                c5 == StripPrefixLines(c4)
            IN Strip(StripCodeFences(c5))

----------------------------------------------------------------------------
(* The spacing passes. *)

\* the number of characters c in s
Count(s, c) == Cardinality({i \in 1..Len(s) : s[i] = c})

IsTableLine(line) ==
    LET stripped == LStrip(line)
    IN StartsWith(stripped, <<"|">>) /\ Count(stripped, "|") >= 2

\* the first position from i on whose line is not a table line
RECURSIVE TableRunEnd(_, _)
TableRunEnd(lines, i) ==
    IF i <= Len(lines) /\ IsTableLine(lines[i])
    THEN TableRunEnd(lines, i + 1)
    ELSE i

\* a variant of the loop that puts no blank line after a run
RECURSIVE TableLoopNoAfter(_, _, _)
TableLoopNoAfter(lines, i, result) ==
    IF i > Len(lines) THEN result
    ELSE IF IsTableLine(lines[i])
    THEN LET j == TableRunEnd(lines, i)
             r1 == IF result # <<>> /\ Strip(result[Len(result)]) # <<>>
                   THEN Append(result, <<>>) ELSE result
         IN TableLoopNoAfter(lines, j, r1 \o SubSeq(lines, i, j - 1))
    ELSE TableLoopNoAfter(lines, i + 1, Append(result, lines[i]))

\* a variant of the loop that puts a blank line before a run whatever the
\* line before it is
RECURSIVE TableLoopAlwaysBefore(_, _, _)
TableLoopAlwaysBefore(lines, i, result) ==
    IF i > Len(lines) THEN result
    ELSE IF IsTableLine(lines[i])
    THEN LET j == TableRunEnd(lines, i)
             r1 == IF result # <<>> THEN Append(result, <<>>) ELSE result
             r2 == r1 \o SubSeq(lines, i, j - 1)
             r3 == IF j <= Len(lines) /\ Strip(lines[j]) # <<>>
                   THEN Append(r2, <<>>) ELSE r2
         IN TableLoopAlwaysBefore(lines, j, r3)
    ELSE TableLoopAlwaysBefore(lines, i + 1, Append(result, lines[i]))

\* the while loop of _add_table_spacing, from position i with result so far
RECURSIVE TableLoop(_, _, _)
TableLoop(lines, i, result) ==
    IF i > Len(lines) THEN result
    ELSE IF IsTableLine(lines[i])
    THEN LET j == TableRunEnd(lines, i)
             r1 == IF result # <<>> /\ Strip(result[Len(result)]) # <<>>
                   THEN Append(result, <<>>) ELSE result
             r2 == r1 \o SubSeq(lines, i, j - 1)
             r3 == IF j <= Len(lines) /\ Strip(lines[j]) # <<>>
                   THEN Append(r2, <<>>) ELSE r2
         IN TableLoop(lines, j, r3)
    ELSE TableLoop(lines, i + 1, Append(result, lines[i]))

AddTableSpacing(s) ==
    LET lines == SplitLines(s)
    IN IF lines = <<>> THEN s
       ELSE RStrip(JoinLines(TableLoop(lines, 1, <<>>)))

OptionLetters == {"A", "B", "C", "D", "E", "F", "G", "H"}
Digits == {"0", "1", "2", "3", "4", "5", "6", "7", "8", "9"}

\* ^\s*([A-H]|\d{1,2})[.)]\s+ matches at the start of line
IsOption(line) ==
    LET t == LStrip(line)
        at(i, S) == i <= Len(t) /\ t[i] \in S
    IN \/ at(1, OptionLetters \cup Digits) /\ at(2, {".", ")"}) /\ at(3, WS)
       \/ at(1, Digits) /\ at(2, Digits) /\ at(3, {".", ")"}) /\ at(4, WS)

\* a variant of the loop in which a block, once begun, never ends
RECURSIVE OptionLoopNeverLeaves(_, _, _, _)
OptionLoopNeverLeaves(lines, i, result, in_option_block) ==
    IF i > Len(lines) THEN result
    ELSE LET line == lines[i]
         IN IF IsOption(line)
            THEN LET r1 == IF /\ ~in_option_block
                              /\ result # <<>>
                              /\ Strip(result[Len(result)]) # <<>>
                           THEN Append(result, <<>>) ELSE result
                 IN OptionLoopNeverLeaves(lines, i + 1, Append(r1, line), TRUE)
            ELSE OptionLoopNeverLeaves(lines, i + 1, Append(result, line),
                                       in_option_block)

\* the for loop of _add_option_spacing, from position i
RECURSIVE OptionLoop(_, _, _, _)
OptionLoop(lines, i, result, in_option_block) ==
    IF i > Len(lines) THEN result
    ELSE LET line == lines[i]
         IN IF IsOption(line)
            THEN LET r1 == IF /\ ~in_option_block
                              /\ result # <<>>
                              /\ Strip(result[Len(result)]) # <<>>
                           THEN Append(result, <<>>) ELSE result
                 IN OptionLoop(lines, i + 1, Append(r1, line), TRUE)
            ELSE OptionLoop(lines, i + 1, Append(result, line),
                            IF Strip(line) # <<>> THEN FALSE ELSE in_option_block)

AddOptionSpacing(s) ==
    LET lines == SplitLines(s)
    IN IF lines = <<>> THEN s
       ELSE RStrip(JoinLines(OptionLoop(lines, 1, <<>>, FALSE)))

\* _process_one after the generation call has returned output
Normalize(output) ==
    LET c == CleanOutput(output)
    IN IF c = <<>> THEN <<>> ELSE AddOptionSpacing(AddTableSpacing(c))

----------------------------------------------------------------------------
(* The artifact selection. *)

Ext == <<".", "g", "g", "u", "f">>
Tag_Q4_K_M == <<"Q", "4", "_", "K", "_", "M">>
Tag_Q4_K == <<"Q", "4", "_", "K">>
Tag_Q4 == <<"Q", "4">>
Tag_q4 == <<"q", "4">>
Preferred == <<Tag_Q4_K_M, Tag_Q4_K, Tag_Q4, Tag_q4>>

\* for name in ggufs: if tag in name: return name
FirstWithTag(ggufs, tag) ==
    LET hits == {i \in 1..Len(ggufs) : Contains(ggufs[i], tag)}
    IN IF hits = {} THEN <<>> ELSE ggufs[Min(hits)]

\* for tag in preferred: ... , from the t-th tag on
RECURSIVE ScanTags(_, _)
ScanTags(ggufs, t) ==
    IF t > Len(Preferred) THEN <<>>
    ELSE LET hit == FirstWithTag(ggufs, Preferred[t])
         IN IF hit # <<>> THEN hit ELSE ScanTags(ggufs, t + 1)

IsGguf(f) == EndsWith(f, Ext)

\* a scan with the loops swapped: catalog order first, tag order second
ScanFiles(ggufs, t) ==
    LET hits == {i \in 1..Len(ggufs) :
                    \E k \in t..Len(Preferred) : Contains(ggufs[i], Preferred[k])}
    IN IF hits = {} THEN <<>> ELSE ggufs[Min(hits)]

\* lines 102-105
TagScan(ggufs, t) == ScanTags(ggufs, t)

\* _choose_gguf; "" is the empty sequence
ChooseGguf(fs, require_q4) ==
    LET ggufs == SelectSeq(fs, IsGguf)
    IN IF ggufs = <<>> THEN <<>>
       ELSE LET hit == TagScan(ggufs, 1)
            IN IF hit # <<>> THEN hit
               ELSE IF require_q4 THEN <<>>
               ELSE ggufs[1]

----------------------------------------------------------------------------
(* Inputs of the pure functions. *)

Preamble == W_corrected \o <<" ">> \o W_text \o <<" ">> \o W_is \o <<" ">>
            \o W_as \o <<" ">> \o W_follows \o <<":">>

\* the pieces a text is built from
Pieces ==
    {<<"a">>, <<" ">>, <<"\n">>, <<"\r">>, <<"T", "h", "e", " ">>,
     MarkText, MarkEnd, MarkOut, MarkEndOut, Fence, Preamble}

\* the concatenations of at most n pieces
RECURSIVE Texts(_)
Texts(n) ==
    IF n = 0 THEN {<<>>}
    ELSE LET shorter == Texts(n - 1)
         IN shorter \cup {t \o p : t \in shorter, p \in Pieces}

\* the raw output "<<<OUT>>>\n{X}\n<<<ENDOUT>>>"
Wrap(x) == MarkOut \o <<"\n">> \o x \o <<"\n">> \o MarkEndOut

\* the sequences of at most n lines taken from S
RECURSIVE LineSeqs(_, _)
LineSeqs(S, n) ==
    IF n = 0 THEN {<<>>}
    ELSE LET shorter == LineSeqs(S, n - 1)
         IN shorter \cup {Append(ls, l) : ls \in shorter, l \in S}

L_a == <<"a">>
L_row == <<"|", "a", "|", "b", "|">>
L_row2 == <<" ", "|", "c", "|", "d", "|", " ">>
L_pipe == <<"|">>

\* the lines of a text handed to _add_table_spacing
TableLines == {<<>>, <<" ">>, L_a, L_row, L_row2, L_pipe}

L_optA == <<"A", ".", " ", "x">>
L_opt1 == <<" ", "1", ")", " ", "y">>
L_opt12 == <<"1", "2", ".", " ", "q">>
L_optBare == <<"A", ".", " ">>
L_notOpt == <<"B", ".", "z">>

\* the lines of a text handed to _add_option_spacing
OptionLines == {<<>>, <<" ">>, L_a, L_optA, L_opt1, L_opt12, L_optBare, L_notOpt}

\* the context lengths handed to _max_tokens
CtxLengths == {0, 1, 127, 128, 129, 200, 255, 256, 257, 300, 384, 1000,
               2175, 2176, 2177, 4096, 8192}

\* the concatenations of at most n pieces of P
RECURSIVE TextsOver(_, _)
TextsOver(P, n) ==
    IF n = 0 THEN {<<>>}
    ELSE LET shorter == TextsOver(P, n - 1)
         IN shorter \cup {t \o p : t \in shorter, p \in P}

\* pieces of a raw output in which markers overlap
MarkerPieces ==
    {<<"a">>, <<"\n">>, <<"<", "<", "<", "E", "N", "D">>, <<">", ">", ">">>,
     <<"<", "<", "<", "T", "E">>, <<"X", "T", ">", ">", ">">>,
     MarkText, MarkEnd, MarkOut, MarkEndOut}

\* pieces of a fragment or an answer without markers
PlainPieces == {<<"a">>, <<"b">>, <<" ">>, <<"\n">>}

\* the raw output that reproduces the delimited section of the prompt around
\* fragment and then gives answer after the answer-open marker
EchoThenAnswer(fragment, answer) ==
    MarkText \o <<"\n">> \o fragment \o <<"\n">> \o MarkEnd \o <<"\n", "\n">>
        \o MarkOut \o <<"\n">> \o answer

Stem == <<"m", "-">>
N_f16 == Stem \o <<"f", "1", "6">> \o Ext
N_Q4_K_M == Stem \o Tag_Q4_K_M \o Ext
N_Q5 == Stem \o <<"Q", "5">> \o Ext
N_Q4_K_S == Stem \o Tag_Q4_K \o <<"_", "S">> \o Ext
N_Q4_0 == Stem \o Tag_Q4 \o <<"_", "0">> \o Ext
N_q4 == Stem \o Tag_q4 \o Ext
N_bin == Stem \o Tag_Q4_K_M \o <<".", "b", "i", "n">>
N_readme == <<"R", "E", "A", "D", "M", "E", ".", "m", "d">>

FileNames == {N_f16, N_Q4_K_M, N_Q5, N_Q4_K_S, N_Q4_0, N_q4, N_bin, N_readme}

\* the file lists of at most n names
RECURSIVE FileLists(_)
FileLists(n) ==
    IF n = 0 THEN {<<>>}
    ELSE LET shorter == FileLists(n - 1)
         IN shorter \cup {Append(l, f) : l \in shorter, f \in FileNames}

----------------------------------------------------------------------------
(* The environment of the worker. *)

\* an environment variable that is unset or empty, a local that holds None or ""
Unset == <<>>

\* os.path.join(dir, name)
Join(dir, name) == dir \o <<"/">> \o name

ModelDir == <<"d">>
PathOverride == <<"o", "/", "m", ".", "g", "g", "u", "f">>
N_u == <<"u">> \o Ext
Url_dir == <<"h", ":", "/", "/", "r", "/">>
Url_model == Url_dir \o N_u \o <<"?", "x">>

\* the values the environment may give each variable
EnvModelPath == {Unset, PathOverride}
EnvModelUrl == {Unset, Url_dir, Url_model}
EnvModelFile == {Unset, N_Q4_K_M}
EnvModelRepo == {"", "my/repo"}
EnvAllowNonQ4 == {"unset", "0", "1"}

\* the files that may exist when the worker starts
InitialFiles ==
    {PathOverride, Join(ModelDir, N_u), Join(ModelDir, N_Q4_K_M)}

\* what a catalog request may come back with
Catalogs == {<<N_f16, N_Q4_K_M, N_Q5>>, <<N_readme, N_f16>>, <<N_readme, <<>>>>}

Responses ==
    {[status |-> st, siblings |-> <<>>] : st \in {"neterr", "404"}}
        \cup {[status |-> "200", siblings |-> c] : c \in Catalogs}

\* how a download may end: complete; the request fails before the destination
\* is opened; the stream breaks and the partial file is removed; the stream
\* breaks and the removal fails too
DownloadOutcomes == {"ok", "no_connection", "broken_removed", "broken_kept"}

\* the context lengths _load_llm may return with; it may also raise
NCtxValues == {4096}

\* the JSON value under "text"
TextVal(type, str) == [type |-> type, str |-> str]
NoText == TextVal("absent", <<>>)

\* an input line: blank after strip, or a JSON text with its parse
Line(blank, json, t) == [blank |-> blank, json |-> json, text |-> t]

Lines ==
    {Line(TRUE, "invalid", NoText),
     Line(FALSE, "invalid", NoText),
     Line(FALSE, "array", NoText),
     Line(FALSE, "object", NoText),
     Line(FALSE, "object", TextVal("str", <<>>)),
     Line(FALSE, "object", TextVal("int", <<"5">>)),
     Line(FALSE, "object", TextVal("list", <<"1", "2">>)),
     Line(FALSE, "object", TextVal("str", <<"a", "b">>))}

\* what lines 234-242 may do: raise (in the call, or for a result without
\* choices[0].text), or give a raw output
RawOutputs == {<<"x", "\n", "|", "a", "|", "b", "|">>}

LlmOutcomes ==
    {[kind |-> "raise", raw |-> <<>>]}
        \cup {[kind |-> "text", raw |-> r] : r \in RawOutputs}

\* lines 243-247 for each raw output the generation call may return
Normalized == [r \in RawOutputs |-> Normalize(r)]

----------------------------------------------------------------------------
(* Model resolution. *)

Candidates ==
    <<"Qwen/Qwen3-1.7B-Instruct-GGUF",
      "Qwen/Qwen3-1.7B-GGUF",
      "Qwen/Qwen3-1.7B-Instruct",
      "Qwen/Qwen3-1.7B",
      "bartowski/Qwen3-1.7B-Instruct-GGUF",
      "bartowski/Qwen3-1.7B-GGUF",
      "lmstudio-community/Qwen3-1.7B-GGUF",
      "Qwen/Qwen2.5-1.5B-Instruct-GGUF",
      "Qwen/Qwen2.5-1.5B-GGUF",
      "Qwen/Qwen2.5-1.5B-Instruct",
      "Qwen/Qwen2.5-1.5B",
      "bartowski/Qwen2.5-1.5B-Instruct-GGUF",
      "bartowski/Qwen2.5-1.5B-GGUF">>

\* _select_repo, given the value of DANUBE_MODEL_REPO
SelectRepo(override) ==
    IF override # ""
    THEN [first |-> override, candidates |-> <<override>>]
    ELSE [first |-> Candidates[1], candidates |-> Candidates]

\* lines 152-157
ReposToTry(repo_override) ==
    IF repo_override # "" THEN <<repo_override>>
    ELSE LET sel == SelectRepo(repo_override)
         IN <<sel.first>> \o SelectSeq(sel.candidates, LAMBDA r : r # sel.first)

\* line 162
RequireQ4(allow) == (IF allow = "unset" THEN "0" ELSE allow) = "0"

\* _list_repo_files: the rfilename of every sibling, [] on any failure
ListRepoFiles(resp) == IF resp.status = "200" THEN resp.siblings ELSE <<>>

\* model_url.split("/")[-1].split("?")[0]
UrlFilename(url) ==
    LET slashes == {i \in 1..Len(url) : url[i] = "/"}
        last == IF slashes = {} THEN url ELSE Drop(url, Max(slashes) + 1)
        marks == {i \in 1..Len(last) : last[i] = "?"}
    IN IF marks = {} THEN last ELSE SubSeq(last, 1, Min(marks) - 1)

\* os.path.isfile(path)
IsFile(path) == path \in disk

\* the record of an os.path.isfile(path) under the model directory
Lookup(path) == [path |-> path, found |-> IsFile(path)]

\* a variant of DiskAfterDownload whose except clause removes nothing
DiskAfterDownloadNoRemoval(d, dest, outcome) ==
    CASE outcome = "ok" -> d \cup {dest}
      [] outcome = "no_connection" -> d
      [] outcome = "broken_removed" -> d \cup {dest}
      [] outcome = "broken_kept" -> d \cup {dest}

\* the files after _download_file(url, dest) ended with outcome: "ok" wrote the
\* whole body; "no_connection" raised before open(destination, "wb");
\* "broken_removed" raised after it and os.remove succeeded; "broken_kept"
\* raised after it and os.remove raised
DiskAfterDownload(d, dest, outcome) ==
    CASE outcome = "ok" -> d \cup {dest}
      [] outcome = "no_connection" -> d
      [] outcome = "broken_removed" -> d \ {dest}
      [] outcome = "broken_kept" -> d \cup {dest}

NoDownload == [step |-> "", url |-> <<>>, repo |-> "", file |-> <<>>, dest |-> <<>>]

\* the frame of _ensure_model before its first statement
FrameInit ==
    [env_path |-> Unset, model_url |-> Unset, model_file |-> Unset,
     repo_override |-> "", require_q4 |-> TRUE,
     repos_to_try |-> <<>>, next |-> 1,
     selected_repo |-> "", selected_file |-> <<>>,
     dl |-> NoDownload,
     \* what the call has done so far
     lookups |-> <<>>, queried |-> <<>>, rejected |-> <<>>, lookup_failed |-> {},
     downloads |-> <<>>, outcomes |-> <<>>, via |-> ""]

\* a variant of Fatal that leaves with the interpreter's code for an uncaught
\* exception
FatalExitsOne(cause) ==
    /\ pc' = "exit2"
    /\ fatal' = cause
    /\ exitCode' = <<1>>
    /\ UNCHANGED model_path

\* main's except clause, lines 363-365
Fatal(cause) ==
    /\ pc' = "exit2"
    /\ fatal' = cause
    /\ exitCode' = <<2>>
    /\ UNCHANGED model_path

\* _ensure_model returns path to main, line 361
Return(path) ==
    /\ model_path' = path
    /\ pc' = "load"
    /\ UNCHANGED <<fatal, exitCode>>

\* the step goes on inside _ensure_model
Goto(label) ==
    /\ pc' = label
    /\ UNCHANGED <<model_path, fatal, exitCode>>

\* lines 129-131
CheckPathOverride ==
    /\ pc = "start"
    /\ \E v \in EnvModelPath :
          IF v # Unset /\ IsFile(v)
          THEN /\ frame' = [frame EXCEPT !.env_path = v, !.via = "path"]
               /\ Return(v)
          ELSE /\ frame' = [frame EXCEPT !.env_path = v]
               /\ Goto("mkdir")
    /\ UNCHANGED <<disk, llm, stdin, inputs, stdout, pureVars>>

\* lines 133-134: os.makedirs may raise
MakeModelDir ==
    /\ pc = "mkdir"
    /\ \E ok \in BOOLEAN : IF ok THEN Goto("url") ELSE Fatal("makedirs")
    /\ UNCHANGED <<disk, frame, llm, stdin, inputs, stdout, pureVars>>

\* a variant of UrlOverride that fetches the URL without looking in the cache
UrlOverrideNoCache ==
    /\ pc = "url"
    /\ \E v \in EnvModelUrl :
          LET filename == UrlFilename(v)
              direct_path == Join(ModelDir, filename)
          IN IF v # Unset /\ filename # <<>>
             THEN /\ frame' = [frame EXCEPT !.model_url = v,
                                  !.lookups = Append(@, Lookup(direct_path)),
                                  !.dl = [step |-> "url", url |-> v, repo |-> "",
                                          file |-> filename, dest |-> direct_path]]
                  /\ Goto("download")
             ELSE /\ frame' = [frame EXCEPT !.model_url = v]
                  /\ Goto("file")
    /\ UNCHANGED <<disk, llm, stdin, inputs, stdout, pureVars>>

\* lines 135-145, up to the download
UrlOverride ==
    /\ pc = "url"
    /\ \E v \in EnvModelUrl :
          LET filename == UrlFilename(v)
              direct_path == Join(ModelDir, filename)
          IN IF v # Unset /\ filename # <<>>
             THEN IF IsFile(direct_path)
                  THEN /\ frame' = [frame EXCEPT !.model_url = v, !.via = "url",
                                       !.lookups = Append(@, Lookup(direct_path))]
                       /\ Return(direct_path)
                  ELSE /\ frame' = [frame EXCEPT !.model_url = v,
                                       !.lookups = Append(@, Lookup(direct_path)),
                                       !.dl = [step |-> "url", url |-> v, repo |-> "",
                                               file |-> filename, dest |-> direct_path]]
                       /\ Goto("download")
             ELSE /\ frame' = [frame EXCEPT !.model_url = v]
                  /\ Goto("file")
    /\ UNCHANGED <<disk, llm, stdin, inputs, stdout, pureVars>>

\* lines 146-150
FileOverride ==
    /\ pc = "file"
    /\ \E v \in EnvModelFile :
          LET candidate == Join(ModelDir, v)
          IN IF v # Unset
             THEN IF IsFile(candidate)
                  THEN /\ frame' = [frame EXCEPT !.model_file = v, !.via = "file",
                                       !.lookups = Append(@, Lookup(candidate))]
                       /\ Return(candidate)
                  ELSE /\ frame' = [frame EXCEPT !.model_file = v,
                                       !.lookups = Append(@, Lookup(candidate))]
                       /\ Goto("repos")
             ELSE /\ frame' = [frame EXCEPT !.model_file = v]
                  /\ Goto("repos")
    /\ UNCHANGED <<disk, llm, stdin, inputs, stdout, pureVars>>

\* lines 152-162
ReadRepos ==
    /\ pc = "repos"
    /\ \E r \in EnvModelRepo, a \in EnvAllowNonQ4 :
          frame' = [frame EXCEPT !.repo_override = r,
                                 !.repos_to_try = ReposToTry(r),
                                 !.require_q4 = RequireQ4(a)]
    /\ Goto("walk")
    /\ UNCHANGED <<disk, llm, stdin, inputs, stdout, pureVars>>

\* a variant of QueryRepo in which a failed catalog request ends the walk
QueryRepoStopsOnError ==
    /\ pc = "walk"
    /\ frame.next <= Len(frame.repos_to_try)
    /\ \E resp \in Responses :
          LET repo == frame.repos_to_try[frame.next]
              fs == ListRepoFiles(resp)
              pick == ChooseGguf(fs, frame.require_q4)
              failed == IF resp.status = "200" THEN {} ELSE {resp.status}
          IN IF pick # <<>>
             THEN /\ frame' = [frame EXCEPT !.selected_repo = repo,
                                            !.selected_file = pick,
                                            !.queried = Append(@, repo)]
                  /\ Goto("walked")
             ELSE /\ frame' = [frame EXCEPT !.next = @ + 1,
                                            !.queried = Append(@, repo),
                                            !.rejected = Append(@, repo),
                                            !.lookup_failed = @ \cup failed]
                  /\ Goto(IF failed # {} \/ frame.next + 1 > Len(frame.repos_to_try)
                          THEN "walked" ELSE "walk")
    /\ UNCHANGED <<disk, llm, stdin, inputs, stdout, pureVars>>

\* lines 163-169: one iteration of the walk
QueryRepo ==
    /\ pc = "walk"
    /\ frame.next <= Len(frame.repos_to_try)
    /\ \E resp \in Responses :
          LET repo == frame.repos_to_try[frame.next]
              fs == ListRepoFiles(resp)
              pick == ChooseGguf(fs, frame.require_q4)
              failed == IF resp.status = "200" THEN {} ELSE {resp.status}
          IN IF pick # <<>>
             THEN /\ frame' = [frame EXCEPT !.selected_repo = repo,
                                            !.selected_file = pick,
                                            !.queried = Append(@, repo)]
                  /\ Goto("walked")
             ELSE /\ frame' = [frame EXCEPT !.next = @ + 1,
                                            !.queried = Append(@, repo),
                                            !.rejected = Append(@, repo),
                                            !.lookup_failed = @ \cup failed]
                  /\ Goto(IF frame.next + 1 > Len(frame.repos_to_try)
                          THEN "walked" ELSE "walk")
    /\ UNCHANGED <<disk, llm, stdin, inputs, stdout, pureVars>>

\* lines 171-180, up to the download
AfterWalk ==
    /\ pc = "walked"
    /\ IF frame.selected_repo = "" \/ frame.selected_file = <<>>
       THEN /\ Fatal("no_model")
            /\ UNCHANGED frame
       ELSE LET path == Join(ModelDir, frame.selected_file)
            IN IF IsFile(path)
               THEN /\ frame' = [frame EXCEPT !.via = "walk",
                                    !.lookups = Append(@, Lookup(path))]
                    /\ Return(path)
               ELSE /\ frame' = [frame EXCEPT !.lookups = Append(@, Lookup(path)),
                                    !.dl = [step |-> "walk", url |-> <<>>,
                                            repo |-> frame.selected_repo,
                                            file |-> frame.selected_file,
                                            dest |-> path]]
                    /\ Goto("download")
    /\ UNCHANGED <<disk, llm, stdin, inputs, stdout, pureVars>>

\* a variant of Download that returns the destination whatever the fetch did
DownloadIgnoringFailure ==
    /\ pc = "download"
    /\ \E outcome \in DownloadOutcomes :
          /\ disk' = DiskAfterDownload(disk, frame.dl.dest, outcome)
          /\ frame' = [frame EXCEPT !.downloads = Append(@, frame.dl),
                                    !.outcomes = Append(@, outcome),
                                    !.via = frame.dl.step]
          /\ Return(frame.dl.dest)
    /\ UNCHANGED <<llm, stdin, inputs, stdout, pureVars>>

\* _download_file, lines 111-125, and the return after it, lines 145 and 181
Download ==
    /\ pc = "download"
    /\ \E outcome \in DownloadOutcomes :
          /\ disk' = DiskAfterDownload(disk, frame.dl.dest, outcome)
          /\ IF outcome = "ok"
             THEN /\ frame' = [frame EXCEPT !.downloads = Append(@, frame.dl),
                                            !.outcomes = Append(@, outcome),
                                            !.via = frame.dl.step]
                  /\ Return(frame.dl.dest)
             ELSE /\ frame' = [frame EXCEPT !.downloads = Append(@, frame.dl),
                                            !.outcomes = Append(@, outcome)]
                  /\ Fatal("download")
    /\ UNCHANGED <<llm, stdin, inputs, stdout, pureVars>>

----------------------------------------------------------------------------
(* main after model resolution. *)

NoLlm == [loaded |-> FALSE, n_ctx |-> 0]

\* line 362: _load_llm returns or raises; the frame of _ensure_model is gone
LoadLlm ==
    /\ pc = "load"
    /\ \/ \E n \in NCtxValues :
             /\ llm' = [loaded |-> TRUE, n_ctx |-> n]
             /\ Goto("ready")
       \/ /\ Fatal("load")
          /\ UNCHANGED llm
    /\ frame' = FrameInit
    /\ UNCHANGED <<disk, stdin, inputs, stdout, pureVars>>

ReadyLine == [type |-> "ready", text |-> <<>>, src |-> 0]

\* a variant of WriteReady that writes the line twice
WriteReadyTwice ==
    /\ pc = "ready"
    /\ stdout' = stdout \o <<ReadyLine, ReadyLine>>
    /\ Goto("loop")
    /\ UNCHANGED <<disk, frame, llm, stdin, inputs, pureVars>>

\* lines 366-367
WriteReady ==
    /\ pc = "ready"
    /\ stdout' = Append(stdout, ReadyLine)
    /\ Goto("loop")
    /\ UNCHANGED <<disk, frame, llm, stdin, inputs, pureVars>>

\* len(text) is defined: text is a string or a list
Sized(t) == t.type \in {"str", "list"}

\* a variant of _max_tokens without the outer floor of 128
MaxTokensNoFloor(length, n_ctx) ==
    LET max(a, b) == IF a >= b THEN a ELSE b
        min(a, b) == IF a <= b THEN a ELSE b
        estimate == max(128, length \div 2)
    IN min(2048, min(estimate, n_ctx - 128))

\* _max_tokens
MaxTokens(length, n_ctx) ==
    LET max(a, b) == IF a >= b THEN a ELSE b
        min(a, b) == IF a <= b THEN a ELSE b
        estimate == max(128, length \div 2)
    IN max(128, min(2048, min(estimate, max(128, n_ctx - 128))))

\* payload.get("text", "")
TextOf(line) == IF line.text.type = "absent" THEN TextVal("str", <<>>) ELSE line.text

\* bool(text)
Truthy(t) ==
    CASE t.type \in {"str", "list"} -> t.str # <<>>
      [] t.type = "int" -> t.str # <<"0">>
      [] OTHER -> FALSE

\* a variant of SkipsGeneration that skips for no text
SkipsNothing(t) == FALSE

\* lines 376-379: the request is answered without generation
SkipsGeneration(t) == ~Truthy(t)

\* what handling one request has done: generation calls, max_tokens of the
\* call, whether an exception was raised, the texts written, and whether the
\* loop is left
Handled(gen, max_tokens, exc, out, leave) ==
    [gen |-> gen, max_tokens |-> max_tokens, exc |-> exc, out |-> out, leave |-> leave]

\* the entry of inputs for a line handled as h, the generation call (if one
\* was made) having ended as outcome
Entry(line, h, outcome) ==
    [line |-> line, gen |-> h.gen, max_tokens |-> h.max_tokens, exc |-> h.exc,
     outcome |-> IF h.gen = 0 THEN "" ELSE outcome.kind]

\* a variant of OnException that swallows the exception and writes nothing
OnExceptionSilent(gen, max_tokens) == Handled(gen, max_tokens, TRUE, <<>>, FALSE)

\* a variant of OnException that lets the exception leave the loop
OnExceptionLeaves(gen, max_tokens) == Handled(gen, max_tokens, TRUE, <<>>, TRUE)

\* lines 383-386: the except clause of the loop body
OnException(gen, max_tokens) == Handled(gen, max_tokens, TRUE, <<<<>>>>, FALSE)

\* _process_one, lines 231-247, and the write of lines 381-382
ProcessOne(t, n_ctx, outcome) ==
    IF ~Sized(t)
    THEN \* len(text) raises in _max_tokens, before the generation call
         OnException(0, 0)
    ELSE LET max_tokens == MaxTokens(Len(t.str), n_ctx)
         IN IF outcome.kind = "text"
            THEN Handled(1, max_tokens, FALSE, <<Normalized[outcome.raw]>>, FALSE)
            ELSE OnException(1, max_tokens)

\* lines 373-386: the body of the loop for a non-blank line
HandleRequest(line, n_ctx, outcome) ==
    IF line.json # "object"
    THEN \* json.loads raises, or payload has no get
         OnException(0, 0)
    ELSE LET t == TextOf(line)
         IN IF SkipsGeneration(t)
            THEN Handled(0, 0, FALSE, <<<<>>>>, FALSE)
            ELSE ProcessOne(t, n_ctx, outcome)

\* lines 369-386: one iteration of the loop
HandleLine ==
    /\ pc = "loop"
    /\ stdin = "open"
    /\ Len(inputs) < MaxLines
    /\ \E line \in Lines, outcome \in LlmOutcomes :
          \E h \in {IF line.blank
                    THEN Handled(0, 0, FALSE, <<>>, FALSE)
                    ELSE HandleRequest(line, llm.n_ctx, outcome)} :
             /\ inputs' = Append(inputs, Entry(line, h, outcome))
             /\ stdout' = stdout \o [i \in 1..Len(h.out) |->
                                       [type |-> "text", text |-> h.out[i],
                                        src |-> Len(inputs) + 1]]
             /\ IF h.leave
                THEN /\ pc' = "crash"
                     /\ exitCode' = <<1>>
                ELSE UNCHANGED <<pc, exitCode>>
    /\ UNCHANGED <<disk, frame, model_path, llm, fatal, stdin, pureVars>>

\* lines 369 and 388: the stream is at its end
EndOfInput ==
    /\ pc = "loop"
    /\ stdin = "closed"
    /\ pc' = "exit0"
    /\ exitCode' = <<0>>
    /\ UNCHANGED <<disk, frame, model_path, llm, fatal, stdin, inputs, stdout, pureVars>>

\* the host closes the worker's standard input
CloseInput ==
    /\ stdin = "open"
    /\ exitCode = <<>>
    /\ stdin' = "closed"
    /\ UNCHANGED <<pc, disk, frame, model_path, llm, fatal, exitCode, inputs, stdout, pureVars>>

CleanIdle == text = <<>> /\ raw = <<>> /\ cleaned = <<>> /\ cpc = "off"

ChooseIdle == files = <<>> /\ requireQ4 = TRUE /\ chosen = <<>> /\ gpc = "off"

TwiceIdle == arg = <<>> /\ once = <<>> /\ twice = <<>> /\ fpc = "off"

TokenIdle == tlen = 0 /\ tctx = 0 /\ tokens = 0 /\ tpc = "off"

RaceIdle == cache = "off" /\ inst = <<>>

PureIdle == CleanIdle /\ ChooseIdle /\ TwiceIdle /\ TokenIdle /\ RaceIdle

ProcIdle ==
    /\ pc = "off"
    /\ disk = {}
    /\ frame = FrameInit
    /\ model_path = <<>>
    /\ llm = NoLlm
    /\ fatal = ""
    /\ exitCode = <<>>
    /\ stdin = "open"
    /\ inputs = <<>>
    /\ stdout = <<>>

Init ==
    /\ pc = "start"
    /\ disk \in SUBSET InitialFiles
    /\ frame = FrameInit
    /\ model_path = <<>>
    /\ llm = NoLlm
    /\ fatal = ""
    /\ exitCode = <<>>
    /\ stdin = "open"
    /\ inputs = <<>>
    /\ stdout = <<>>
    /\ PureIdle

Next ==
    \/ CheckPathOverride
    \/ MakeModelDir
    \/ UrlOverride
    \/ FileOverride
    \/ ReadRepos
    \/ QueryRepo
    \/ AfterWalk
    \/ Download
    \/ LoadLlm
    \/ WriteReady
    \/ HandleLine
    \/ EndOfInput
    \/ CloseInput

Spec == Init /\ [][Next]_vars

\* main is sequential: once _load_llm has returned, line 367 is executed, and
\* once the stream is at its end, line 388 is
FairSpec == Spec /\ WF_vars(WriteReady) /\ WF_vars(EndOfInput)

----------------------------------------------------------------------------
(* _clean_output applied to a raw output. *)

InitClean ==
    /\ text \in Texts(MaxPieces)
    /\ raw \in {text, Wrap(text)}
    /\ cleaned = <<>>
    /\ cpc = "in"
    /\ ChooseIdle /\ TwiceIdle /\ TokenIdle /\ RaceIdle
    /\ ProcIdle

Clean ==
    /\ cpc = "in"
    /\ cleaned' = CleanOutput(raw)
    /\ cpc' = "done"
    /\ UNCHANGED <<text, raw, chooseVars, twiceVars, tokenVars, raceVars, procVars>>

NextClean == Clean

SpecClean == InitClean /\ [][NextClean]_vars

(* _choose_gguf applied to a catalog. *)

InitChoose ==
    /\ files \in FileLists(MaxFiles)
    /\ requireQ4 \in BOOLEAN
    /\ chosen = <<>>
    /\ gpc = "in"
    /\ CleanIdle /\ TwiceIdle /\ TokenIdle /\ RaceIdle
    /\ ProcIdle

Choose ==
    /\ gpc = "in"
    /\ chosen' = ChooseGguf(files, requireQ4)
    /\ gpc' = "done"
    /\ UNCHANGED <<files, requireQ4, cleanVars, twiceVars, tokenVars, raceVars, procVars>>

NextChoose == Choose

SpecChoose == InitChoose /\ [][NextChoose]_vars

(* _clean_output applied to a raw output in which markers overlap. *)

InitScrub ==
    /\ text \in TextsOver(MarkerPieces, MaxPieces)
    /\ raw = text
    /\ cleaned = <<>>
    /\ cpc = "in"
    /\ ChooseIdle /\ TwiceIdle /\ TokenIdle /\ RaceIdle
    /\ ProcIdle

SpecScrub == InitScrub /\ [][NextClean]_vars

(* _clean_output applied to a raw output that echoes the prompt; text is the *)
(* pair of the fragment and the answer.                                     *)

InitEcho ==
    /\ text \in TextsOver(PlainPieces, MaxEchoPieces) \X TextsOver(PlainPieces, MaxEchoPieces)
    /\ raw = EchoThenAnswer(text[1], text[2])
    /\ cleaned = <<>>
    /\ cpc = "in"
    /\ ChooseIdle /\ TwiceIdle /\ TokenIdle /\ RaceIdle
    /\ ProcIdle

SpecEcho == InitEcho /\ [][NextClean]_vars

(* _clean_output applied to its own result. *)

InitReclean ==
    /\ arg \in Texts(MaxPieces)
    /\ once = <<>>
    /\ twice = <<>>
    /\ fpc = "in"
    /\ CleanIdle /\ ChooseIdle /\ TokenIdle /\ RaceIdle
    /\ ProcIdle

CleanOnce ==
    /\ fpc = "in"
    /\ once' = CleanOutput(arg)
    /\ fpc' = "once"
    /\ UNCHANGED <<arg, twice, cleanVars, chooseVars, tokenVars, raceVars, procVars>>

CleanTwice ==
    /\ fpc = "once"
    /\ twice' = CleanOutput(once)
    /\ fpc' = "twice"
    /\ UNCHANGED <<arg, once, cleanVars, chooseVars, tokenVars, raceVars, procVars>>

NextReclean == CleanOnce \/ CleanTwice

SpecReclean == InitReclean /\ [][NextReclean]_vars

(* _add_table_spacing applied to a text and then to its own result. *)

InitTable ==
    /\ arg \in {JoinLines(ls) : ls \in LineSeqs(TableLines, MaxTableLines)}
    /\ once = <<>>
    /\ twice = <<>>
    /\ fpc = "in"
    /\ CleanIdle /\ ChooseIdle /\ TokenIdle /\ RaceIdle
    /\ ProcIdle

TableOnce ==
    /\ fpc = "in"
    /\ once' = AddTableSpacing(arg)
    /\ fpc' = "once"
    /\ UNCHANGED <<arg, twice, cleanVars, chooseVars, tokenVars, raceVars, procVars>>

TableTwice ==
    /\ fpc = "once"
    /\ twice' = AddTableSpacing(once)
    /\ fpc' = "twice"
    /\ UNCHANGED <<arg, once, cleanVars, chooseVars, tokenVars, raceVars, procVars>>

NextTable == TableOnce \/ TableTwice

SpecTable == InitTable /\ [][NextTable]_vars

(* _add_option_spacing applied to a text and then to its own result. *)

InitOption ==
    /\ arg \in {JoinLines(ls) : ls \in LineSeqs(OptionLines, MaxOptionLines)}
    /\ once = <<>>
    /\ twice = <<>>
    /\ fpc = "in"
    /\ CleanIdle /\ ChooseIdle /\ TokenIdle /\ RaceIdle
    /\ ProcIdle

OptionOnce ==
    /\ fpc = "in"
    /\ once' = AddOptionSpacing(arg)
    /\ fpc' = "once"
    /\ UNCHANGED <<arg, twice, cleanVars, chooseVars, tokenVars, raceVars, procVars>>

OptionTwice ==
    /\ fpc = "once"
    /\ twice' = AddOptionSpacing(once)
    /\ fpc' = "twice"
    /\ UNCHANGED <<arg, once, cleanVars, chooseVars, tokenVars, raceVars, procVars>>

NextOption == OptionOnce \/ OptionTwice

SpecOption == InitOption /\ [][NextOption]_vars

(* _max_tokens applied to a text length and a context length. *)

InitTokens ==
    /\ tlen \in 0..MaxTextLen
    /\ tctx \in CtxLengths
    /\ tokens = 0
    /\ tpc = "in"
    /\ CleanIdle /\ ChooseIdle /\ TwiceIdle /\ RaceIdle
    /\ ProcIdle

Tokens ==
    /\ tpc = "in"
    /\ tokens' = MaxTokens(tlen, tctx)
    /\ tpc' = "done"
    /\ UNCHANGED <<tlen, tctx, cleanVars, chooseVars, twiceVars, raceVars, procVars>>

NextTokens == Tokens

SpecTokens == InitTokens /\ [][NextTokens]_vars

----------------------------------------------------------------------------
(* The request loop: C1 to C5 *)

\* the indices of the input lines read so far that are not blank, in order
NonBlank == SelectSeq([k \in 1..Len(inputs) |-> k], LAMBDA k : ~inputs[k].line.blank)

\* the positions on standard output of the lines written for input line k
ResponsesTo(k) == {i \in 1..Len(stdout) : stdout[i].type = "text" /\ stdout[i].src = k}

\* the number of ready lines on standard output
ReadyCount == Cardinality({i \in 1..Len(stdout) : stdout[i].type = "ready"})

\* the request of input line k raised: the line is not JSON, is not a JSON
\* object, has a text the prompt cannot be sized for, or generation failed
Failed(k) ==
    LET r == inputs[k]
    IN /\ ~r.line.blank
       /\ \/ r.line.json # "object"
          \/ Truthy(TextOf(r.line)) /\ ~Sized(TextOf(r.line))
          \/ r.outcome = "raise"

\* the request of input line k has an empty or absent text
EmptyText(k) ==
    LET r == inputs[k]
    IN ~r.line.blank /\ r.line.json = "object" /\ TextOf(r.line) = TextVal("str", <<>>)

\* C1: once the ready line is out, the lines after it on standard output are
\* exactly one response line per non-blank input line read, in input order: the
\* k-th response line answers the k-th non-blank line, whether that line was
\* valid or malformed, and a blank line has no response line.
C1_OneResponsePerNonBlankLine ==
    pc \in {"loop", "exit0"} =>
        /\ stdout # <<>>
        /\ stdout[1] = ReadyLine
        /\ Len(stdout) = 1 + Len(NonBlank)
        /\ \A k \in 1..Len(NonBlank) :
              /\ stdout[1 + k].type = "text"
              /\ stdout[1 + k].src = NonBlank[k]
        /\ \A k \in 1..Len(inputs) : inputs[k].line.blank => ResponsesTo(k) = {}

\* the stream ended after a blank line, a malformed line and a generated answer
C1_Witness ==
    /\ pc = "exit0"
    /\ \E i, j, k \in 1..Len(inputs) :
          /\ inputs[i].line.blank
          /\ ~inputs[j].line.blank /\ inputs[j].line.json = "invalid"
          /\ inputs[k].outcome = "text"
    /\ Len(stdout) = 1 + Len(NonBlank)

\* C2: the ready line is written at most once, it is the first line on standard
\* output, it is there only when model resolution has returned a path and the
\* model is loaded, it is there before any input line is read, and when
\* initialization fails nothing at all is on standard output.
C2_ReadyOnceAfterInit ==
    /\ ReadyCount <= 1
    /\ ReadyCount = 1 => (stdout[1] = ReadyLine /\ model_path # <<>> /\ llm.loaded)
    /\ stdout # <<>> => ReadyCount = 1
    /\ inputs # <<>> => ReadyCount = 1
    /\ pc \in {"loop", "exit0"} => ReadyCount = 1
    /\ fatal # "" => stdout = <<>>

\* requests have been answered after the one ready line
C2_Witness ==
    /\ ReadyCount = 1
    /\ Len(stdout) > 2
    /\ stdout[1] = ReadyLine
    /\ llm.loaded

\* C3: a request that raises is answered by exactly one line, the response with
\* the empty text, and the loop goes on: the worker is never out of the loop
\* but by the end of the stream.
C3_FailuresAnsweredEmpty ==
    /\ \A k \in 1..Len(inputs) :
          Failed(k) =>
              /\ inputs[k].exc
              /\ Cardinality(ResponsesTo(k)) = 1
              /\ \A i \in ResponsesTo(k) : stdout[i].text = <<>>
    /\ \A k \in 1..Len(inputs) : inputs[k].exc => Failed(k)
    /\ inputs # <<>> => pc \in {"loop", "exit0"}
    /\ pc = "exit0" => stdin = "closed"
    /\ exitCode # <<1>>

\* a line that is not JSON and a failed generation are both answered with the
\* empty text, and a later request is still answered with a generated text
C3_Witness ==
    /\ pc = "loop"
    /\ \E i, j, k \in 1..Len(inputs) :
          /\ i < k /\ j < k
          /\ inputs[i].line.json = "invalid" /\ ~inputs[i].line.blank
          /\ inputs[j].outcome = "raise"
          /\ inputs[k].outcome = "text"
          /\ \A m \in {i, j} : \E n \in ResponsesTo(m) : stdout[n].text = <<>>
          /\ \E n \in ResponsesTo(k) : stdout[n].text # <<>>

\* C4: a request whose text is empty or absent is answered with the empty text
\* and no generation call; a request makes at most one generation call, and
\* makes one only when its text is not empty.
C4_EmptyTextSkipsGeneration ==
    \A k \in 1..Len(inputs) :
        LET r == inputs[k]
        IN /\ r.gen \in {0, 1}
           /\ r.gen = 1 =>
                 /\ ~r.line.blank
                 /\ r.line.json = "object"
                 /\ Sized(r.line.text)
                 /\ r.line.text.str # <<>>
           /\ EmptyText(k) =>
                 /\ r.gen = 0
                 /\ ~r.exc
                 /\ Cardinality(ResponsesTo(k)) = 1
                 /\ \A i \in ResponsesTo(k) : stdout[i].text = <<>>

\* a request with the empty text, one without text and one with a text have
\* been answered, the last one alone with a generation call
C4_Witness ==
    \E i, j, k \in 1..Len(inputs) :
        /\ EmptyText(i) /\ inputs[i].line.text.type = "str"
        /\ EmptyText(j) /\ inputs[j].line.text.type = "absent"
        /\ inputs[k].gen = 1
        /\ inputs[i].gen = 0 /\ inputs[j].gen = 0

\* the exit codes and when they are taken
ExitCodes ==
    /\ exitCode \in {<<>>, <<0>>, <<2>>}
    /\ exitCode = <<2>> <=> fatal # ""
    /\ fatal \in {"", "makedirs", "no_model", "download", "load"}
    /\ fatal # "" => (pc = "exit2" /\ ~llm.loaded /\ inputs = <<>> /\ stdout = <<>>)
    /\ fatal \in {"makedirs", "no_model", "download"} => model_path = <<>>
    /\ fatal = "load" => model_path # <<>>
    /\ exitCode = <<0>> <=> pc = "exit0"
    /\ pc = "exit0" => (model_path # <<>> /\ llm.loaded /\ stdin = "closed")

\* C5: the exit code is 2 exactly when model resolution or model load raised,
\* which is before the loop; it is 0 exactly when initialization succeeded and
\* the stream reached its end, and then the worker does terminate with 0; no
\* other exit code is produced.
C5_ExitCodes ==
    /\ []ExitCodes
    /\ (llm.loaded /\ stdin = "closed") ~> (exitCode = <<0>>)

\* the worker answered requests and left with 0 at the end of the stream
C5_Witness ==
    /\ exitCode = <<0>>
    /\ pc = "exit0"
    /\ Len(inputs) > 1

----------------------------------------------------------------------------
(* Model resolution: C6, C7, C9 *)

\* C6: _ensure_model either raises or returns a path at which a file exists;
\* it has no path before it returns and none when it raises.
C6_ReturnedPathExists ==
    /\ pc = "load" => (model_path # <<>> /\ model_path \in disk)
    /\ pc \in {"start", "mkdir", "url", "file", "repos", "walk", "walked", "download"}
          => model_path = <<>>
    /\ fatal \in {"makedirs", "no_model", "download"} => model_path = <<>>

\* _ensure_model returns the file it has just fetched
C6_Witness ==
    /\ pc = "load"
    /\ frame.downloads # <<>>
    /\ frame.dl.dest = model_path
    /\ model_path \in disk

\* the URL override names a file
UrlGiven == frame.model_url # Unset /\ UrlFilename(frame.model_url) # <<>>

\* the lookup of path in the model directory, as _ensure_model made it
Looked(path, found) ==
    \E i \in 1..Len(frame.lookups) : frame.lookups[i] = [path |-> path, found |-> found]

\* C7: when _ensure_model returns, the path comes from the first step that can
\* give one, in the order path override, URL override, filename override,
\* repository walk, and no later step has been performed: an existing path
\* override is returned with no lookup, catalog request or fetch; a URL
\* override found in the cache is returned without a fetch; a filename
\* override is used only when found in the cache, and no fetch is ever made
\* for it.
C7_OverridePrecedence ==
    /\ pc = "load" =>
          /\ frame.via \in {"path", "url", "file", "walk"}
          /\ frame.via = "path" <=> (frame.env_path # Unset /\ frame.env_path \in disk)
          /\ frame.via = "path" =>
                /\ model_path = frame.env_path
                /\ frame.lookups = <<>> /\ frame.queried = <<>> /\ frame.downloads = <<>>
                /\ frame.model_url = Unset /\ frame.model_file = Unset
          /\ (frame.via # "path" /\ UrlGiven) => frame.via = "url"
          /\ frame.via = "url" =>
                /\ UrlGiven
                /\ model_path = Join(ModelDir, UrlFilename(frame.model_url))
                /\ frame.lookups = <<[path |-> model_path, found |-> frame.downloads = <<>>]>>
                /\ frame.queried = <<>> /\ frame.repos_to_try = <<>>
                /\ frame.model_file = Unset
          /\ (frame.via \notin {"path", "url"} /\ frame.model_file # Unset
                 /\ Looked(Join(ModelDir, frame.model_file), TRUE))
                => frame.via = "file"
          /\ frame.via = "file" =>
                /\ frame.model_file # Unset
                /\ model_path = Join(ModelDir, frame.model_file)
                /\ frame.lookups = <<[path |-> model_path, found |-> TRUE]>>
                /\ frame.queried = <<>> /\ frame.repos_to_try = <<>>
                /\ frame.downloads = <<>>
          /\ frame.via = "walk" =>
                /\ ~UrlGiven
                /\ frame.model_file # Unset =>
                      frame.lookups[1] = [path |-> Join(ModelDir, frame.model_file),
                                          found |-> FALSE]
                /\ frame.queried # <<>>
                /\ model_path = Join(ModelDir, frame.selected_file)
    /\ \A i \in 1..Len(frame.downloads) :
          LET d == frame.downloads[i]
          IN \/ d.step = "url" /\ d.url = frame.model_url /\ Looked(d.dest, FALSE)
             \/ /\ d.step = "walk"
                /\ d.repo = frame.selected_repo
                /\ d.file = frame.selected_file
                /\ frame.selected_repo \in {frame.queried[j] : j \in 1..Len(frame.queried)}

\* the cached file of the URL override is returned though the file of the
\* filename override is in the cache too
C7_Witness ==
    /\ pc = "load"
    /\ frame.via = "url"
    /\ frame.downloads = <<>>
    /\ Join(ModelDir, N_Q4_K_M) \in disk
    /\ model_path = Join(ModelDir, N_u)

\* C9: the walk queries the candidates in priority order without skipping one;
\* a candidate whose catalog request fails or whose catalog holds no acceptable
\* file is passed over for the next; the walk stops at the first candidate that
\* yields a selection; it ends without a model only when every candidate has
\* been tried; and with a repository override the override is the one candidate.
C9_WalkInPriorityOrder ==
    /\ Len(frame.queried) <= Len(frame.repos_to_try)
    /\ frame.queried = SubSeq(frame.repos_to_try, 1, Len(frame.queried))
    /\ frame.selected_repo = "" => frame.queried = frame.rejected
    /\ frame.selected_repo # "" =>
          /\ frame.queried = Append(frame.rejected, frame.selected_repo)
          /\ frame.selected_file # <<>>
    /\ (pc = "walked" /\ frame.selected_repo = "") => frame.rejected = frame.repos_to_try
    /\ fatal = "no_model" =>
          /\ frame.selected_repo = ""
          /\ frame.rejected = frame.repos_to_try
          /\ frame.downloads = <<>>
    /\ frame.lookup_failed # {} => frame.rejected # <<>>
    /\ frame.repos_to_try # <<>> =>
          frame.repos_to_try = IF frame.repo_override # ""
                               THEN <<frame.repo_override>> ELSE Candidates

\* the third candidate yields the selection after one catalog request failed
\* and one catalog held nothing acceptable
C9_Witness ==
    /\ pc = "walked"
    /\ frame.repo_override = ""
    /\ frame.selected_repo = Candidates[3]
    /\ frame.rejected = <<Candidates[1], Candidates[2]>>
    /\ Cardinality(frame.lookup_failed) = 1

----------------------------------------------------------------------------
(* C11 *)

\* C11: _clean_output is idempotent: for every raw output s,
\* _clean_output(_clean_output(s)) equals _clean_output(s).
C11_CleanIdempotent == fpc = "twice" => twice = once

----------------------------------------------------------------------------
(* C10 *)

\* a marker occurs in x
HasMarker(x) ==
    \/ Contains(x, MarkText) \/ Contains(x, MarkEnd)
    \/ Contains(x, MarkOut) \/ Contains(x, MarkEndOut)

\* x starts with a line the preamble strip removes
HasLeadingPreamble(x) ==
    LET lines == SplitLines(x)
    IN lines # <<>> /\ IsPreamble(Strip(lines[1]))

\* x starts with a code-fence line: the fence, then a line break \n further on
HasOpeningFence(x) == StartsWith(x, Fence) /\ Contains(x, <<"\n">>)

\* x ends with a code-fence line
HasClosingFence(x) == EndsWith(x, <<"\n">> \o Fence)

\* a text the normalizer has nothing to strip from
PlainText(x) ==
    LET t == Strip(x)
    IN /\ ~HasMarker(x)
       /\ ~Contains(t, <<"\r">>)
       /\ ~HasLeadingPreamble(t)
       /\ ~HasOpeningFence(t)
       /\ ~HasClosingFence(t)

----------------------------------------------------------------------------
(* C8 *)

\* the positions of the archive files of fs
GgufAt(fs) == {i \in 1..Len(fs) : IsGguf(fs[i])}

\* the tags (by priority, 1 first) some archive file of fs contains
TagsMatched(fs) ==
    {t \in 1..Len(Preferred) : \E i \in GgufAt(fs) : Contains(fs[i], Preferred[t])}

\* what the selection rule asks for
Selection(fs, require_q4) ==
    IF TagsMatched(fs) # {}
    THEN LET best == Preferred[Min(TagsMatched(fs))]
         IN fs[Min({i \in GgufAt(fs) : Contains(fs[i], best)})]
    ELSE IF require_q4 \/ GgufAt(fs) = {} THEN <<>>
    ELSE fs[Min(GgufAt(fs))]

\* C8: _choose_gguf returns the first archive file (in catalog order) that
\* contains the highest-priority tag any archive file contains; with no tag
\* matched it returns nothing when require_q4 holds and the first archive
\* file otherwise; [m-f16.gguf, m-Q4_K_M.gguf, m-Q5.gguf] gives m-Q4_K_M.gguf.
C8_ChoosesByTagPriority ==
    gpc = "done" =>
        /\ chosen = Selection(files, requireQ4)
        /\ (files = <<N_f16, N_Q4_K_M, N_Q5>> => chosen = N_Q4_K_M)
        /\ (chosen # <<>> => IsGguf(chosen))

\* tag priority outranked catalog order: an earlier archive file with a
\* lower-priority tag was passed over
C8_Witness ==
    /\ gpc = "done"
    /\ \E i, j \in GgufAt(files) :
          /\ i < j
          /\ chosen = files[j]
          /\ files[i] # files[j]
          /\ \E t \in 1..Len(Preferred) : Contains(files[i], Preferred[t])

----------------------------------------------------------------------------
(* C12, C13 *)

\* a line that is empty or whitespace only
BlankLine(l) == Strip(l) = <<>>

\* line i of L is the first, the last, of a maximal run of table lines
RunStart(L, i) == IsTableLine(L[i]) /\ (i = 1 \/ ~IsTableLine(L[i - 1]))
RunEnd(L, i) == IsTableLine(L[i]) /\ (i = Len(L) \/ ~IsTableLine(L[i + 1]))

\* the lines of L from i on, with one blank line before a run whose previous
\* line exists and is not blank, and one after a run whose next line exists
\* and is not blank
RECURSIVE TableSpaced(_, _)
TableSpaced(L, i) ==
    IF i > Len(L) THEN <<>>
    ELSE (IF RunStart(L, i) /\ i > 1 /\ ~BlankLine(L[i - 1]) THEN <<<<>>>> ELSE <<>>)
         \o <<L[i]>>
         \o (IF RunEnd(L, i) /\ i < Len(L) /\ ~BlankLine(L[i + 1]) THEN <<<<>>>> ELSE <<>>)
         \o TableSpaced(L, i + 1)

\* every run of table lines of L has a blank line, or no line, on each side
RunsBounded(L) ==
    \A i \in 1..Len(L) :
        /\ (RunStart(L, i) /\ i > 1) => BlankLine(L[i - 1])
        /\ (RunEnd(L, i) /\ i < Len(L)) => BlankLine(L[i + 1])

\* C12 as stated: the lines of _add_table_spacing's result are the input lines,
\* none removed, reordered or altered, with exactly one blank line before a run
\* of table lines whose previous line exists and is not blank and exactly one
\* after a run whose next line exists and is not blank; every run in the
\* result is bounded by blank lines or the ends of the text.
C12_TableSpacingKeepsLines ==
    fpc = "once" =>
        /\ SplitLines(once) = TableSpaced(SplitLines(arg), 1)
        /\ RunsBounded(SplitLines(once))

\* C12 as amended: the result is those lines, with the blank lines at the run
\* boundaries, joined by line feeds and with the trailing whitespace of the
\* whole text removed (a text without lines is returned as it is); every run
\* in the result is bounded by blank lines or the ends of the text.
C12_TableSpacingUpToTrailingSpace ==
    fpc = "once" =>
        /\ once = IF SplitLines(arg) = <<>> THEN arg
                  ELSE RStrip(JoinLines(TableSpaced(SplitLines(arg), 1)))
        /\ RunsBounded(SplitLines(once))

\* the example: [a, row, row, row, a] becomes [a, "", row, row, row, "", a]
C12_Witness ==
    /\ fpc = "once"
    /\ SplitLines(arg) = <<L_a, L_row, L_row, L_row, L_a>>
    /\ SplitLines(once) = <<L_a, <<>>, L_row, L_row, L_row, <<>>, L_a>>

\* C13: _add_table_spacing is idempotent: applied to its own result it
\* returns that result, with no further blank line.
C13_TableSpacingIdempotent == fpc = "twice" => twice = once

\* a first run that inserted blank lines, and a second run that inserted none
C13_Witness ==
    /\ fpc = "twice"
    /\ Len(SplitLines(once)) = Len(SplitLines(arg)) + 2
    /\ twice = once

----------------------------------------------------------------------------
(* C14 *)

\* the lines of L from i on, with one blank line before each option line that
\* follows a line that is neither blank nor an option line
RECURSIVE OptionSpaced(_, _)
OptionSpaced(L, i) ==
    IF i > Len(L) THEN <<>>
    ELSE (IF IsOption(L[i]) /\ i > 1 /\ ~BlankLine(L[i - 1]) /\ ~IsOption(L[i - 1])
          THEN <<<<>>>> ELSE <<>>)
         \o <<L[i]>>
         \o OptionSpaced(L, i + 1)

\* C14 as stated: the lines of _add_option_spacing's result are the input
\* lines, unchanged and in order, with exactly one blank line before an option
\* line that begins a block after a non-blank line, nothing between option
\* lines that follow one another and nothing before another line; and the
\* pass applied to its own result returns that result.
C14_OptionSpacingKeepsLines ==
    /\ fpc \in {"once", "twice"} => SplitLines(once) = OptionSpaced(SplitLines(arg), 1)
    /\ fpc = "twice" => twice = once

\* C14 as amended: the result is those lines, with the blank lines before the
\* blocks, joined by line feeds and with the trailing whitespace of the whole
\* text removed (a text without lines is returned as it is); and the pass
\* applied to its own result returns that result.
C14_OptionSpacingUpToTrailingSpace ==
    /\ fpc \in {"once", "twice"} =>
          once = IF SplitLines(arg) = <<>> THEN arg
                 ELSE RStrip(JoinLines(OptionSpaced(SplitLines(arg), 1)))
    /\ fpc = "twice" => twice = once

\* the example: [a, option, option, a] becomes [a, "", option, option, a], and
\* a second run leaves it so
C14_Witness ==
    /\ fpc = "twice"
    /\ SplitLines(arg) = <<L_a, L_optA, L_opt1, L_a>>
    /\ SplitLines(once) = <<L_a, <<>>, L_optA, L_opt1, L_a>>
    /\ twice = once

----------------------------------------------------------------------------
(* C15 *)

\* x held between lo and hi; lo when the two cross
Clamp(x, lo, hi) == IF x < lo \/ hi < lo THEN lo ELSE IF x > hi THEN hi ELSE x

\* max(128, floor(len / 2))
Estimate(length) == IF length \div 2 > 128 THEN length \div 2 ELSE 128

\* min(2048, contextLength - 128)
Ceiling(n_ctx) == IF n_ctx - 128 < 2048 THEN n_ctx - 128 ELSE 2048

\* C15 as stated: _max_tokens returns clamp(max(128, floor(len/2)), 128,
\* min(2048, contextLength - 128)), and the result is never below 128, never
\* above 2048 and never above contextLength - 128.
C15_MaxTokensWithinContext ==
    tpc = "done" =>
        /\ tokens = Clamp(Estimate(tlen), 128, Ceiling(tctx))
        /\ tokens >= 128
        /\ tokens <= 2048
        /\ tokens <= tctx - 128

\* C15 as amended: _max_tokens returns that clamp with the floor of 128
\* winning over the ceiling; the result is never below 128 and never above
\* 2048, it is never above contextLength - 128 when contextLength is at least
\* 256, and it is 128 when contextLength is less.
C15_MaxTokensFloorWins ==
    tpc = "done" =>
        /\ tokens = Clamp(Estimate(tlen), 128, Ceiling(tctx))
        /\ tokens >= 128
        /\ tokens <= 2048
        /\ tctx >= 256 => tokens <= tctx - 128
        /\ tctx < 256 => tokens = 128

\* a long text with a context of 200: the result is 128, above 200 - 128
C15_Witness ==
    /\ tpc = "done"
    /\ tctx = 200
    /\ tlen = 1000
    /\ tokens = 128

----------------------------------------------------------------------------
(* Lines 175-181 of _ensure_model and _download_file, lines 111-125, run by  *)
(* several instances on one model directory. cache is the file at the path   *)
(* of the selected artifact: whether the name exists, and which chunks of    *)
(* the body the file under that name holds. An instance's handle is linked   *)
(* while the file it opened is still the one under the name.                 *)

Instances == 1..NumInstances

Chunks == 1..MaxChunks

NoFile == [exists |-> FALSE, content |-> {}]

Fresh == [pc |-> "check", linked |-> FALSE, off |-> 0, restarts |-> 0]

InitRace ==
    /\ cache = NoFile
    /\ inst = [i \in Instances |-> Fresh]
    /\ CleanIdle /\ ChooseIdle /\ TwiceIdle /\ TokenIdle
    /\ ProcIdle

AtRace(i, next) == inst' = [inst EXCEPT ![i].pc = next]

OthersUnchanged == UNCHANGED <<cleanVars, chooseVars, twiceVars, tokenVars, procVars>>

\* lines 175-177: the cached file is returned as it is found
CheckCache(i) ==
    /\ inst[i].pc = "check"
    /\ AtRace(i, IF cache.exists THEN "done" ELSE "fetch")
    /\ UNCHANGED cache
    /\ OthersUnchanged

\* line 115: urlopen raises, or the destination is opened with mode "wb",
\* which creates the file or truncates the one under the name
OpenDestination(i) ==
    /\ inst[i].pc = "fetch"
    /\ \/ /\ AtRace(i, "except")
          /\ UNCHANGED cache
       \/ /\ cache' = [exists |-> TRUE, content |-> {}]
          /\ inst' = [inst EXCEPT ![i].pc = "write", ![i].linked = TRUE, ![i].off = 0]
    /\ OthersUnchanged

\* lines 116-120: one chunk is read and written at the handle's own offset,
\* or the read or the write raises
WriteChunk(i) ==
    /\ inst[i].pc = "write"
    /\ inst[i].off < MaxChunks
    /\ \/ /\ cache' = IF inst[i].linked
                       THEN [cache EXCEPT !.content = @ \cup {inst[i].off + 1}]
                       ELSE cache
          /\ inst' = [inst EXCEPT ![i].off = @ + 1]
       \/ /\ AtRace(i, "except")
          /\ UNCHANGED cache
    /\ OthersUnchanged

\* lines 118-119 and 181: the body has ended and the path is returned
EndOfBody(i) ==
    /\ inst[i].pc = "write"
    /\ inst[i].off = MaxChunks
    /\ AtRace(i, "done")
    /\ UNCHANGED cache
    /\ OthersUnchanged

\* lines 121-125: the file under the name is removed, whoever wrote it, or
\* the removal raises and is swallowed; the error is raised again
RemoveAndRaise(i) ==
    /\ inst[i].pc = "except"
    /\ \/ /\ cache.exists
          /\ cache' = NoFile
          /\ inst' = [j \in Instances |->
                        IF j = i THEN [inst[j] EXCEPT !.pc = "failed", !.linked = FALSE]
                        ELSE [inst[j] EXCEPT !.linked = FALSE]]
       \/ /\ AtRace(i, "failed")
          /\ UNCHANGED cache
    /\ OthersUnchanged

\* the process is killed in the middle of the download
Crash(i) ==
    /\ inst[i].pc = "write"
    /\ AtRace(i, "crashed")
    /\ UNCHANGED cache
    /\ OthersUnchanged

\* the worker is started again
Restart(i) ==
    /\ inst[i].pc \in {"done", "failed", "crashed"}
    /\ inst[i].restarts < MaxRestarts
    /\ inst' = [inst EXCEPT ![i] = [Fresh EXCEPT !.restarts = inst[i].restarts + 1]]
    /\ UNCHANGED cache
    /\ OthersUnchanged

NextRace ==
    \E i \in Instances :
        \/ CheckCache(i)
        \/ OpenDestination(i)
        \/ WriteChunk(i)
        \/ EndOfBody(i)
        \/ RemoveAndRaise(i)
        \/ Crash(i)
        \/ Restart(i)

SpecRace == InitRace /\ [][NextRace]_vars

----------------------------------------------------------------------------
(* C16, C17 *)

\* C16: the text _clean_output returns holds no occurrence of any of the four
\* markers, those that the removal of a marker brings about included.
C16_NoMarkerInCleaned == cpc = "done" => ~HasMarker(cleaned)

\* C17: for a raw output that reproduces the delimited section of the prompt
\* and then gives a non-empty answer after the answer-open marker,
\* _clean_output returns the answer and not the echoed fragment.
C17_AnswerNotEcho ==
    (cpc = "done" /\ Strip(text[2]) # <<>>) => cleaned = Strip(text[2])

----------------------------------------------------------------------------
(* C18, C19 *)

LastOutcome == frame.outcomes[Len(frame.outcomes)]

LastDownload == frame.downloads[Len(frame.downloads)]

\* C18: when _download_file raises, the wrapped error reaches the caller, which
\* leaves with the fatal cause "download", whether or not the removal of the
\* partial file succeeded; unless the removal itself failed, no file is left
\* at the destination, so that no later lookup finds it.
C18_FailedDownloadLeavesNoFile ==
    /\ Len(frame.outcomes) = Len(frame.downloads)
    /\ (frame.outcomes # <<>> /\ LastOutcome # "ok") =>
          /\ pc = "exit2" /\ fatal = "download"
          /\ model_path = Unset
          /\ LastOutcome # "broken_kept" =>
                /\ ~IsFile(LastDownload.dest)
                /\ ~Lookup(LastDownload.dest).found
    /\ fatal = "download" => (frame.outcomes # <<>> /\ LastOutcome # "ok")

C18_Witness ==
    /\ fatal = "download"
    /\ LastOutcome = "broken_removed"
    /\ ~IsFile(LastDownload.dest)

----------------------------------------------------------------------------
(* C20 *)

Complete == cache.exists /\ cache.content = Chunks

\* C20: with several instances on one model directory, restarts and crashes
\* in the middle of a download, every instance whose resolution has completed
\* holds a path to a file that exists and holds the whole artifact.
C20_CompletedHoldsWholeFile ==
    \A i \in Instances : inst[i].pc = "done" => Complete

====
